---------------------------- MODULE Spec2Model ----------------------------
(***************************************************************************)
(* Verification model of stake-ebpf-check: the bpf-math streaming          *)
(* arithmetic (u64 only), the rate-limited stake delta built on it, and    *)
(* the wide-arithmetic backends it is compared against.                    *)
(*                                                                         *)
(* Machine integers of the program are 64, 128 and 256 bits wide, which is *)
(* beyond the integers of the model checker.  Every program integer is     *)
(* therefore a natural number written as its sequence of base-2^16 limbs,  *)
(* least significant first, without leading zero limbs: 0 is << >>,        *)
(* 10_000 is <<10000>>, 2^16 is <<0, 1>>, u64::MAX is                      *)
(* <<65535, 65535, 65535, 65535>>.  N(n) writes a small number in this     *)
(* form and two numbers are equal exactly when their sequences are.        *)
(***************************************************************************)
EXTENDS Integers, Sequences, FiniteSets

\* `let name = v; body`: v is evaluated once and bound to the parameter of In
Let(v, In(_)) == In(v)

(***************************************************************************)
(* Natural numbers of unbounded width.                                     *)
(***************************************************************************)
\* two bytes to a limb
LimbBits == 2 * 8
LimbBase == 2^16

Zero == << >>
One == <<1>>

RECURSIVE N(_)
N(n) == IF n = 0 THEN Zero ELSE <<n % LimbBase>> \o N(n \div LimbBase)

Limb(x, i) == IF i <= Len(x) THEN x[i] ELSE 0

RECURSIVE Norm(_)
Norm(x) ==
    IF x = << >> THEN x
    ELSE IF x[Len(x)] = 0 THEN Norm(SubSeq(x, 1, Len(x) - 1))
    ELSE x

MaxInt(m, n) == IF m >= n THEN m ELSE n

RECURSIVE AddFrom(_, _, _, _)
AddFrom(x, y, i, c) ==
    IF i > MaxInt(Len(x), Len(y))
    THEN IF c = 0 THEN << >> ELSE <<c>>
    ELSE LET s == Limb(x, i) + Limb(y, i) + c
         IN  <<s % LimbBase>> \o AddFrom(x, y, i + 1, s \div LimbBase)

Add(x, y) == AddFrom(x, y, 1, 0)

RECURSIVE LtFrom(_, _, _)
LtFrom(x, y, i) ==
    IF i = 0 THEN FALSE
    ELSE IF x[i] # y[i] THEN x[i] < y[i]
    ELSE LtFrom(x, y, i - 1)

Lt(x, y) ==
    IF Len(x) # Len(y) THEN Len(x) < Len(y) ELSE LtFrom(x, y, Len(x))

Le(x, y) == ~Lt(y, x)
Gt(x, y) == Lt(y, x)
Ge(x, y) == ~Lt(x, y)

\* x - y for x >= y
RECURSIVE SubFrom(_, _, _, _)
SubFrom(x, y, i, b) ==
    IF i > Len(x) THEN << >>
    ELSE LET d == Limb(x, i) - Limb(y, i) - b
         IN  IF d < 0 THEN <<d + LimbBase>> \o SubFrom(x, y, i + 1, 1)
             ELSE <<d>> \o SubFrom(x, y, i + 1, 0)

Sub(x, y) == Norm(SubFrom(x, y, 1, 0))

Double(x) == Add(x, x)

Half(x) ==
    Norm([i \in 1..Len(x) |->
            (x[i] \div 2) + (Limb(x, i + 1) % 2) * (LimbBase \div 2)])

IsOdd(x) == x # Zero /\ x[1] % 2 = 1

\* bit i of x (bit 0 is the least significant)
BitSet(x, i) ==
    (Limb(x, (i \div LimbBits) + 1) \div (2 ^ (i % LimbBits))) % 2 = 1

\* x * m for a small factor 0 <= m <= 2^15
RECURSIVE MulSmallFrom(_, _, _, _)
MulSmallFrom(x, m, i, c) ==
    IF i > Len(x)
    THEN IF c = 0 THEN << >> ELSE <<c>>
    ELSE LET s == x[i] * m + c
         IN  <<s % LimbBase>> \o MulSmallFrom(x, m, i + 1, s \div LimbBase)

MulSmall(x, m) == IF m = 0 THEN Zero ELSE MulSmallFrom(x, m, 1, 0)

\* x * LimbBase^k
ShiftLimbs(x, k) == IF x = Zero THEN Zero ELSE [i \in 1..k |-> 0] \o x

\* x * d for one limb 0 <= d < 2^16
MulLimb(x, d) ==
    Add(MulSmall(x, d % 256), MulSmall(MulSmall(x, d \div 256), 256))

RECURSIVE MulFrom(_, _, _)
MulFrom(x, y, i) ==
    IF i > Len(y) THEN Zero
    ELSE Add(MulLimb(x, y[i]), ShiftLimbs(MulFrom(x, y, i + 1), 1))

Mul(x, y) == IF x = Zero THEN Zero ELSE MulFrom(x, y, 1)

\* Long division, one limb of the quotient at a time.
\* DigitFrom(r, d, k, g) settles the bits k, k-1, .. 0 of a quotient limb whose
\* higher bits are g, r being what is left of the dividend; the result is
\* <<the limb, the remainder>>
RECURSIVE DigitFrom(_, _, _, _)
DigitFrom(r, d, k, g) ==
    IF k < 0 THEN <<g, r>>
    ELSE IF Le(MulSmall(d, 2 ^ k), r) /\ g >= 0
    THEN DigitFrom(Sub(r, MulSmall(d, 2 ^ k)), d, k - 1, g + 2 ^ k)
    ELSE DigitFrom(r, d, k - 1, g)

\* <<floor(r / d), r mod d>> for r < d * LimbBase
Digit(r, d) == IF Lt(r, d) THEN <<0, r>> ELSE DigitFrom(r, d, LimbBits - 1, 0)

\* DivFrom(n, d, i, qr): the limbs i, i-1, .. 1 of n still to bring down,
\* qr = <<limbs of the quotient so far, remainder so far>>
RECURSIVE DivFrom(_, _, _, _)
DivFrom(n, d, i, qr) ==
    IF i = 0 \/ qr = << >> THEN qr
    ELSE DivFrom(n, d, i - 1,
                 Let(Digit(Norm(<<n[i]>> \o qr[2]), d), LAMBDA dg :
                   <<(<<dg[1]>>) \o qr[1], dg[2]>>))

\* <<floor(n / d), n mod d>> for d > 0
DivMod(n, d) ==
    Let(DivFrom(n, d, Len(n), <<Zero, Zero>>), LAMBDA qr :
      <<Norm(qr[1]), qr[2]>>)

Div(n, d) == DivMod(n, d)[1]
Mod(n, d) == DivMod(n, d)[2]

Min(x, y) == IF Lt(y, x) THEN y ELSE x

\* 2^k
Pow2(k) == [i \in 1..((k \div LimbBits) + 1) |->
              IF i = (k \div LimbBits) + 1 THEN 2 ^ (k % LimbBits) ELSE 0]

\* the low k bits of x, for k a multiple of LimbBits
LowBits(x, k) ==
    IF Len(x) <= k \div LimbBits THEN x
    ELSE Norm(SubSeq(x, 1, k \div LimbBits))

(***************************************************************************)
(* Machine integers.  u64 arithmetic is modelled as the release build      *)
(* computes it: +, - and << wrap modulo 2^64 (a debug build panics where   *)
(* the wrapped and the exact result differ).                               *)
(***************************************************************************)
U64_BITS == 64
U128_BITS == 128
U256_BITS == 256

U64_MAX == Sub(Pow2(U64_BITS), One)
U128_MAX == Sub(Pow2(U128_BITS), One)

U64Add(x, y) == LowBits(Add(x, y), U64_BITS)
U64Sub(x, y) == IF Lt(x, y) THEN Sub(Add(x, Pow2(U64_BITS)), y) ELSE Sub(x, y)
U64Shl1(x) == LowBits(Double(x), U64_BITS)
U64Shr1(x) == Half(x)
\* x | bit for bit in {0, 1}
U64OrBit(x, bit) == IF bit = Zero \/ IsOdd(x) THEN x ELSE Add(x, One)
saturating_sub(x, y) == IF Lt(x, y) THEN Zero ELSE Sub(x, y)

\* Option<T>
None == [some |-> FALSE]
Some(v) == [some |-> TRUE, val |-> v]
unwrap_or(o, dflt) == IF o.some THEN o.val ELSE dflt

(***************************************************************************)
(* bpf-math: mixed-radix primitives.  A function that updates *hi, *lo in  *)
(* place returns the updated values beside its result.                     *)
(***************************************************************************)
BASIS_POINTS_PER_UNIT == 10000
TenK == N(BASIS_POINTS_PER_UNIT)

\* <<x / 10_000, x % 10_000>>
split_base_10k(x) == DivMod(x, TenK)

\* add_hi_mod wrapping only when add exceeds the space left below cp
add_hi_mod_wrap_late(hi, add, cp) ==
    IF add = Zero THEN [hi |-> hi, wraps |-> Zero]
    ELSE Let(IF Ge(hi, cp) THEN Mod(hi, cp) ELSE hi, LAMBDA h :
         Let(U64Sub(cp, h), LAMBDA space :
           IF Gt(add, space)
           THEN [hi |-> U64Sub(add, space), wraps |-> One]
           ELSE [hi |-> U64Add(h, add), wraps |-> Zero]))

add_hi_mod(hi, add, cp) ==
    IF add = Zero THEN [hi |-> hi, wraps |-> Zero]
    ELSE Let(IF Ge(hi, cp) THEN Mod(hi, cp) ELSE hi, LAMBDA h :
         Let(U64Sub(cp, h), LAMBDA space :
           IF Ge(add, space)
           THEN [hi |-> U64Sub(add, space), wraps |-> One]
           ELSE [hi |-> U64Add(h, add), wraps |-> Zero]))

add_base_10k_mod(hi, lo, add_hi, add_lo, cp) ==
    Let(U64Add(lo, add_lo), LAMBDA sum :
    Let(Ge(sum, TenK), LAMBDA over :
    Let(IF over THEN U64Sub(sum, TenK) ELSE sum, LAMBDA lo_sum :
    Let(IF over THEN One ELSE Zero, LAMBDA carry_hi :
    Let(add_hi_mod(hi, add_hi, cp), LAMBDA first :
    Let(add_hi_mod(first.hi, carry_hi, cp), LAMBDA second :
      [hi |-> second.hi, lo |-> lo_sum,
       wraps |-> U64Add(first.wraps, second.wraps)]))))))

\* double_base_10k_reduce adding prev_hi but not prev_lo
double_base_10k_reduce_hi_only(hi, lo, cp) ==
    Let(add_base_10k_mod(hi, lo, hi, Zero, cp), LAMBDA s :
      [hi |-> s.hi, lo |-> s.lo, bit |-> IF s.wraps # Zero THEN One ELSE Zero])

double_base_10k_reduce(hi, lo, cp) ==
    Let(add_base_10k_mod(hi, lo, hi, lo, cp), LAMBDA s :
      [hi |-> s.hi, lo |-> s.lo, bit |-> IF s.wraps # Zero THEN One ELSE Zero])

\* add_with_cap refusing a sum that lands exactly on the cap
add_with_cap_below_cap(current, add, cap) ==
    IF add = Zero THEN Some(current)
    ELSE IF Gt(add, cap) THEN None
    ELSE IF Ge(current, U64Sub(cap, add)) THEN None
    ELSE Some(U64Add(current, add))

add_with_cap(current, add, cap) ==
    IF add = Zero THEN Some(current)
    ELSE IF Gt(add, cap) THEN None
    ELSE IF Gt(current, U64Sub(cap, add)) THEN None
    ELSE Some(U64Add(current, add))

\* double_with_cap shifting q without or-ing the bit in
double_with_cap_bit_dropped(q, bit, cap) ==
    IF Gt(bit, cap) THEN None
    ELSE Let(U64Shr1(U64Sub(cap, bit)), LAMBDA allowed :
           IF Gt(q, allowed) THEN None
           ELSE Some(U64Shl1(q)))

double_with_cap(q, bit, cap) ==
    IF Gt(bit, cap) THEN None
    ELSE Let(U64Shr1(U64Sub(cap, bit)), LAMBDA allowed :
           IF Gt(q, allowed) THEN None
           ELSE Some(U64OrBit(U64Shl1(q), bit)))

(***************************************************************************)
(* Loops.  A loop of the program is its body, an operator from loop state  *)
(* to loop state, applied U64_BITS times in sequence.  X_run(st, c, n) is  *)
(* n consecutive iterations from st; it runs the first half, then the      *)
(* second half from the state the first half ended in, which keeps the     *)
(* evaluation shallow and changes nothing in the order of the iterations.  *)
(***************************************************************************)

(***************************************************************************)
(* mul_cap.  The loop state is a, b, res and the value returned from       *)
(* inside the loop, if any.  The while loop shifts b right once per        *)
(* iteration, so it ends within U64_BITS iterations: mul_cap_iter is one   *)
(* evaluation of the loop condition followed by the body, and leaves the   *)
(* state alone once the loop has ended or the function has returned.       *)
(***************************************************************************)
\* mul_cap_iter doubling a by a plain shift, without saturating it at cap
mul_cap_iter_plain_shift(st, cap) ==
    IF st.ret.some \/ st.b = Zero \/ Ge(st.res, cap) THEN st
    ELSE Let(IsOdd(st.b), LAMBDA odd :
         Let(saturating_sub(cap, st.res), LAMBDA room :
           IF odd /\ Ge(st.a, room)
           THEN [st EXCEPT !.ret = Some(cap)]
           ELSE [a   |-> U64Shl1(st.a),
                 b   |-> U64Shr1(st.b),
                 res |-> IF odd THEN U64Add(st.res, st.a) ELSE st.res,
                 ret |-> None]))

mul_cap_iter(st, cap) ==
    IF st.ret.some \/ st.b = Zero \/ Ge(st.res, cap) THEN st
    ELSE Let(IsOdd(st.b), LAMBDA odd :
         Let(saturating_sub(cap, st.res), LAMBDA room :
           IF odd /\ Ge(st.a, room)
           THEN [st EXCEPT !.ret = Some(cap)]
           ELSE [a   |-> IF Gt(st.a, U64Shr1(cap)) THEN cap
                         ELSE U64Shl1(st.a),
                 b   |-> U64Shr1(st.b),
                 res |-> IF odd THEN U64Add(st.res, st.a) ELSE st.res,
                 ret |-> None]))

RECURSIVE mul_cap_run(_, _, _)
mul_cap_run(st, cap, n) ==
    IF st.ret.some THEN st
    ELSE IF n = 1 THEN mul_cap_iter(st, cap)
    ELSE mul_cap_run(mul_cap_run(st, cap, n \div 2), cap, n - (n \div 2))

mul_cap(a, b, cap) ==
    IF a = Zero \/ b = Zero THEN Zero
    ELSE Let(mul_cap_run([a |-> a, b |-> b, res |-> Zero, ret |-> None],
                         cap, U64_BITS), LAMBDA fin :
           IF fin.ret.some THEN fin.ret.val
           ELSE IF Gt(fin.res, cap) THEN cap ELSE fin.res)

(***************************************************************************)
(* mul_div_by_cp10k_capped.  The loop state is the bit position i, the     *)
(* running quotient q, the running remainder (r_hi, r_lo) and whether the  *)
(* function has returned None; c holds what the loop only reads.           *)
(* mul_div_iter is the loop body for bit position st.i; it leaves the      *)
(* state alone once the function has returned None.                        *)
(***************************************************************************)
mul_div_returned_none(st) == [st EXCEPT !.none = TRUE]

mul_div_next(st, q, r) ==
    [i |-> st.i - 1, q |-> q, r_hi |-> r.hi, r_lo |-> r.lo, none |-> FALSE]

mul_div_iter(st, c) ==
    IF st.none THEN st
    ELSE
    Let(double_base_10k_reduce(st.r_hi, st.r_lo, c.cp), LAMBDA d :
    Let(double_with_cap(st.q, d.bit, c.q_cap), LAMBDA q1 :
      IF ~q1.some THEN mul_div_returned_none(st)
      ELSE IF ~BitSet(c.b, st.i) THEN mul_div_next(st, q1.val, d)
      ELSE
      Let(add_with_cap(q1.val, c.adder_q, c.q_cap), LAMBDA q2 :
        IF ~q2.some THEN mul_div_returned_none(st)
        ELSE
        Let(add_base_10k_mod(d.hi, d.lo, c.adder_hi, c.adder_lo, c.cp),
            LAMBDA s :
        Let(IF s.wraps # Zero THEN add_with_cap(q2.val, s.wraps, c.q_cap)
            ELSE q2, LAMBDA q3 :
          IF ~q3.some THEN mul_div_returned_none(st)
          ELSE mul_div_next(st, q3.val, s))))))

RECURSIVE mul_div_run(_, _, _)
mul_div_run(st, c, n) ==
    IF st.none \/ st.i < 0 THEN st
    ELSE IF n = 1 THEN mul_div_iter(st, c)
    ELSE mul_div_run(mul_div_run(st, c, n \div 2), c, n - (n \div 2))

mul_div_by_cp10k_capped(a, b, cp, q_cap) ==
    IF a = Zero \/ b = Zero THEN Some(<<Zero, Zero, Zero>>)
    ELSE IF cp = Zero THEN None
    ELSE
    Let(split_base_10k(a), LAMBDA sp :
    Let(DivMod(sp[1], cp), LAMBDA aq :
    Let([b |-> b, cp |-> cp, q_cap |-> q_cap, adder_q |-> aq[1],
         adder_hi |-> aq[2], adder_lo |-> sp[2]], LAMBDA c :
    Let(mul_div_run([i |-> U64_BITS - 1, q |-> Zero, r_hi |-> Zero,
                     r_lo |-> Zero, none |-> FALSE], c, U64_BITS),
        LAMBDA fin :
      IF fin.none THEN None ELSE Some(<<fin.q, fin.r_hi, fin.r_lo>>)))))

(***************************************************************************)
(* remainder_mul_div                                                       *)
(***************************************************************************)
remainder_next(st, q, r) ==
    [i |-> st.i - 1, q |-> q, r_hi |-> r.hi, r_lo |-> r.lo]

\* remainder_iter not counting the wrap of the addition into the quotient
remainder_iter_add_wrap_lost(st, c) ==
    Let(double_base_10k_reduce(st.r_hi, st.r_lo, c.cp), LAMBDA d :
    Let(U64OrBit(U64Shl1(st.q), d.bit), LAMBDA q1 :
      IF ~BitSet(c.k, st.i) THEN remainder_next(st, q1, d)
      ELSE remainder_next(st, q1,
              add_base_10k_mod(d.hi, d.lo, c.adder_hi, c.adder_lo, c.cp))))

remainder_iter(st, c) ==
    Let(double_base_10k_reduce(st.r_hi, st.r_lo, c.cp), LAMBDA d :
    Let(U64OrBit(U64Shl1(st.q), d.bit), LAMBDA q1 :
      IF ~BitSet(c.k, st.i) THEN remainder_next(st, q1, d)
      ELSE
      Let(add_base_10k_mod(d.hi, d.lo, c.adder_hi, c.adder_lo, c.cp),
          LAMBDA s :
        remainder_next(st, IF s.wraps # Zero THEN U64Add(q1, s.wraps) ELSE q1,
                       s))))

RECURSIVE remainder_run(_, _, _)
remainder_run(st, c, n) ==
    IF st.i < 0 THEN st
    ELSE IF n = 1 THEN remainder_iter(st, c)
    ELSE remainder_run(remainder_run(st, c, n \div 2), c, n - (n \div 2))

remainder_mul_div(rem_hi, rem_lo, k, cp) ==
    IF k = Zero THEN Zero
    ELSE remainder_run([i |-> U64_BITS - 1, q |-> Zero, r_hi |-> Zero,
                        r_lo |-> Zero],
                       [k |-> k, cp |-> cp, adder_hi |-> rem_hi,
                        adder_lo |-> rem_lo], U64_BITS).q

(***************************************************************************)
(* Rate selection and the backends of rate_limited_stake_change.           *)
(***************************************************************************)
ORIGINAL_WARMUP_COOLDOWN_RATE_BPS == 2500
TOWER_WARMUP_COOLDOWN_RATE_BPS == 900

warmup_cooldown_rate_bps(epoch, new_rate_activation_epoch) ==
    IF Lt(epoch, unwrap_or(new_rate_activation_epoch, U64_MAX))
    THEN N(ORIGINAL_WARMUP_COOLDOWN_RATE_BPS)
    ELSE N(TOWER_WARMUP_COOLDOWN_RATE_BPS)

\* the streaming calculator returning total without the remainder correction
EbpfStreaming_without_correction(epoch, account_portion, cluster_portion, cluster_effective, new_rate_activation_epoch) ==
    IF account_portion = Zero \/ cluster_portion = Zero
       \/ cluster_effective = Zero
    THEN Zero
    ELSE
    Let(warmup_cooldown_rate_bps(epoch, new_rate_activation_epoch),
        LAMBDA rate_bps :
    Let(mul_div_by_cp10k_capped(account_portion, cluster_effective,
                                cluster_portion,
                                Div(account_portion, rate_bps)), LAMBDA t :
      IF ~t.some THEN account_portion
      ELSE Min(mul_cap(t.val[1], rate_bps, account_portion), account_portion)))

\* the streaming calculator without the zero check of cluster_portion
EbpfStreaming_without_cluster_check(epoch, account_portion, cluster_portion, cluster_effective, new_rate_activation_epoch) ==
    IF account_portion = Zero \/ cluster_effective = Zero
    THEN Zero
    ELSE
    Let(warmup_cooldown_rate_bps(epoch, new_rate_activation_epoch),
        LAMBDA rate_bps :
    Let(mul_div_by_cp10k_capped(account_portion, cluster_effective,
                                cluster_portion,
                                Div(account_portion, rate_bps)), LAMBDA t :
      IF ~t.some THEN account_portion
      ELSE
      Let(mul_cap(t.val[1], rate_bps, account_portion), LAMBDA total :
        IF Ge(total, account_portion) THEN account_portion
        ELSE
        Let(remainder_mul_div(t.val[2], t.val[3], rate_bps, cluster_portion),
            LAMBDA t2 :
          IF Ge(t2, U64Sub(account_portion, total)) THEN account_portion
          ELSE U64Add(total, t2)))))

\* EbpfStreamingCalculator::rate_limited_stake_change
EbpfStreaming_rate_limited_stake_change(epoch, account_portion, cluster_portion, cluster_effective, new_rate_activation_epoch) ==
    IF account_portion = Zero \/ cluster_portion = Zero
       \/ cluster_effective = Zero
    THEN Zero
    ELSE
    Let(warmup_cooldown_rate_bps(epoch, new_rate_activation_epoch),
        LAMBDA rate_bps :
    Let(Div(account_portion, rate_bps), LAMBDA q_cap :
    Let(mul_div_by_cp10k_capped(account_portion, cluster_effective,
                                cluster_portion, q_cap), LAMBDA t :
      IF ~t.some THEN account_portion
      ELSE
      \* (q1, rem_hi, rem_lo) = (t.val[1], t.val[2], t.val[3])
      Let(mul_cap(t.val[1], rate_bps, account_portion), LAMBDA total :
        IF Ge(total, account_portion) THEN account_portion
        ELSE
        Let(remainder_mul_div(t.val[2], t.val[3], rate_bps, cluster_portion),
            LAMBDA t2 :
        Let(U64Sub(account_portion, total), LAMBDA room :
          IF Ge(t2, room) THEN account_portion ELSE U64Add(total, t2)))))))

\* u128::checked_mul and u128::saturating_mul
checked_mul_u128(x, y) ==
    Let(Mul(x, y), LAMBDA p : IF Gt(p, U128_MAX) THEN None ELSE Some(p))
saturating_mul_u128(x, y) == Min(Mul(x, y), U128_MAX)

\* ManualCalculator::rate_limited_stake_change
Manual_rate_limited_stake_change(epoch, account_portion, cluster_portion, cluster_effective, new_rate_activation_epoch) ==
    IF account_portion = Zero \/ cluster_portion = Zero
       \/ cluster_effective = Zero
    THEN Zero
    ELSE
    Let(warmup_cooldown_rate_bps(epoch, new_rate_activation_epoch),
        LAMBDA rate_bps :
    Let(checked_mul_u128(account_portion, cluster_effective), LAMBDA first :
    Let(IF first.some THEN checked_mul_u128(first.val, rate_bps) ELSE None,
        LAMBDA numerator :
    Let(saturating_mul_u128(cluster_portion, TenK), LAMBDA denominator :
      IF numerator.some
      THEN LowBits(Min(Div(numerator.val, denominator), account_portion),
                   U64_BITS)
      ELSE account_portion))))

\* the low 64 bits of a U256
u256_floor_to_u64(x) == LowBits(x, U64_BITS)

\* U256 multiplication
U256Mul(x, y) == LowBits(Mul(x, y), U256_BITS)

\* CryptoCalculator::rate_limited_stake_change
Crypto_rate_limited_stake_change(epoch, account_portion, cluster_portion, cluster_effective, new_rate_activation_epoch) ==
    IF account_portion = Zero \/ cluster_portion = Zero
       \/ cluster_effective = Zero
    THEN Zero
    ELSE
    Let(warmup_cooldown_rate_bps(epoch, new_rate_activation_epoch),
        LAMBDA rate_bps :
    Let(U256Mul(U256Mul(account_portion, cluster_effective), rate_bps),
        LAMBDA num :
    Let(U256Mul(cluster_portion, TenK), LAMBDA den :
    Let(u256_floor_to_u64(Div(num, den)), LAMBDA delta :
      IF Gt(delta, account_portion) THEN account_portion ELSE delta))))

(***************************************************************************)
(* The formula in unbounded arithmetic, against which the backends are     *)
(* judged: min(floor(ap * ce * rate / (cp * 10_000)), ap).                 *)
(***************************************************************************)
RefQuotient(account_portion, cluster_portion, cluster_effective, rate_bps) ==
    Div(Mul(Mul(account_portion, cluster_effective), rate_bps),
        Mul(cluster_portion, TenK))

RefDelta(account_portion, cluster_portion, cluster_effective, rate_bps) ==
    Min(RefQuotient(account_portion, cluster_portion, cluster_effective,
                    rate_bps),
        account_portion)

(***************************************************************************)
(* The state machine.  Every function of the program is pure and nothing   *)
(* persists between calls: a caller is idle, calls one function with       *)
(* arguments of its choice, holds the returned value, and drops it.        *)
(*   pc    "idle" or "done" (and the positions of the stepwise machine)    *)
(*   fn    the function called                                             *)
(*   args  its arguments, a record named after the parameters              *)
(*   ret   the value it returned                                           *)
(*   local the local variables of a function that is followed step by      *)
(*         step (the stepwise machine below); << >> for a call taken whole *)
(***************************************************************************)
VARIABLES pc, fn, args, ret, local

vars == <<pc, fn, args, ret, local>>

\* Arguments are drawn from 0..SmallMax and the values below, which are the
\* grids of the repository's tests, the examples of its documentation and
\* the extremes of u64.
SmallMax == 3

Small == {N(n) : n \in 0..SmallMax}
U32_MAX == Sub(Pow2(32), One)
U64_MAX_DIV_8 == Div(U64_MAX, N(8))
U64_MAX_DIV_1024 == Div(U64_MAX, N(1024))

MulCapOperands == Small \cup {N(900), N(2500), Pow2(32), Pow2(63), U64_MAX}
MulCapCaps ==
    Small \cup {N(6), N(7500), Pow2(63), Sub(U64_MAX, One), U64_MAX}

MulDivA == {Zero, One, N(9999), N(100001), U64_MAX_DIV_8, U64_MAX}
MulDivB == {Zero, One, N(3), N(63), N(1000000), U32_MAX, U64_MAX}
MulDivCp == {Zero, One, N(3), N(10000), U64_MAX_DIV_1024, U64_MAX}
\* caps: the extremes, and the exact quotient and its predecessor
MulDivCaps(a, b, cp) ==
    {Zero, One, U64_MAX}
    \cup (IF cp = Zero THEN {}
          ELSE LET q == Div(Mul(a, b), Mul(cp, TenK))
               IN  IF Gt(q, U64_MAX) THEN {}
                   ELSE {q, saturating_sub(q, One)})

RemCp == {One, N(2), N(3), N(10), N(10000), N(1000000), U64_MAX}
RemHi(cp) == {Zero, One, N(123), N(9999999), Sub(cp, One)}
RemLo == {Zero, One, N(9999)}
RemK == {Zero, One, N(7), N(900), N(2500), U64_MAX}

Epochs == {Zero, N(4), N(5), N(6), Sub(U64_MAX, One), U64_MAX}
ActivationEpochs == {None, Some(Zero), Some(N(5)), Some(U64_MAX)}

\* <<epoch, new_rate_activation_epoch>>
RateCases == {<<Zero, None>>, <<U64_MAX, None>>,
              <<N(4), Some(N(5))>>, <<N(5), Some(N(5))>>}
AccountPortions == Small \cup {N(100000), U64_MAX}
ClusterPortions == Small \cup {N(50000), U64_MAX}
ClusterEffectives == Small \cup {N(100000), Pow2(63), U64_MAX}

Init ==
    /\ pc = "idle"
    /\ fn = "none"
    /\ args = << >>
    /\ ret = Zero
    /\ local = << >>

Call_mul_cap ==
    /\ pc = "idle"
    /\ \E a \in MulCapOperands, b \in MulCapOperands, cap \in MulCapCaps :
          /\ args' = [a |-> a, b |-> b, cap |-> cap]
          /\ ret' = mul_cap(a, b, cap)
    /\ fn' = "mul_cap"
    /\ pc' = "done"
    /\ local' = << >>

Call_mul_div_by_cp10k_capped ==
    /\ pc = "idle"
    /\ \E a \in MulDivA, b \in MulDivB, cp \in MulDivCp :
          \E q_cap \in MulDivCaps(a, b, cp) :
             /\ args' = [a |-> a, b |-> b, cp |-> cp, q_cap |-> q_cap]
             /\ ret' = mul_div_by_cp10k_capped(a, b, cp, q_cap)
    /\ fn' = "mul_div_by_cp10k_capped"
    /\ pc' = "done"
    /\ local' = << >>

Call_remainder_mul_div ==
    /\ pc = "idle"
    /\ \E cp \in RemCp, rem_lo \in RemLo, k \in RemK :
          \E rem_hi \in RemHi(cp) :
             /\ args' = [rem_hi |-> rem_hi, rem_lo |-> rem_lo, k |-> k,
                         cp |-> cp]
             /\ ret' = remainder_mul_div(rem_hi, rem_lo, k, cp)
    /\ fn' = "remainder_mul_div"
    /\ pc' = "done"
    /\ local' = << >>

Call_warmup_cooldown_rate_bps ==
    /\ pc = "idle"
    /\ \E epoch \in Epochs, activation \in ActivationEpochs :
          /\ args' = [epoch |-> epoch, new_rate_activation_epoch |-> activation]
          /\ ret' = warmup_cooldown_rate_bps(epoch, activation)
    /\ fn' = "warmup_cooldown_rate_bps"
    /\ pc' = "done"
    /\ local' = << >>

StakeArgs(rc, ap, cp, ce) ==
    [epoch |-> rc[1], account_portion |-> ap, cluster_portion |-> cp,
     cluster_effective |-> ce, new_rate_activation_epoch |-> rc[2]]

Call_EbpfStreamingCalculator ==
    /\ pc = "idle"
    /\ \E rc \in RateCases, ap \in AccountPortions, cp \in ClusterPortions,
          ce \in ClusterEffectives :
          /\ args' = StakeArgs(rc, ap, cp, ce)
          /\ ret' = EbpfStreaming_rate_limited_stake_change(rc[1], ap, cp, ce,
                                                            rc[2])
    /\ fn' = "EbpfStreamingCalculator"
    /\ pc' = "done"
    /\ local' = << >>

Call_ManualCalculator ==
    /\ pc = "idle"
    /\ \E rc \in RateCases, ap \in AccountPortions, cp \in ClusterPortions,
          ce \in ClusterEffectives :
          /\ args' = StakeArgs(rc, ap, cp, ce)
          /\ ret' = Manual_rate_limited_stake_change(rc[1], ap, cp, ce, rc[2])
    /\ fn' = "ManualCalculator"
    /\ pc' = "done"
    /\ local' = << >>

Call_CryptoCalculator ==
    /\ pc = "idle"
    /\ \E rc \in RateCases, ap \in AccountPortions, cp \in ClusterPortions,
          ce \in ClusterEffectives :
          /\ args' = StakeArgs(rc, ap, cp, ce)
          /\ ret' = Crypto_rate_limited_stake_change(rc[1], ap, cp, ce, rc[2])
    /\ fn' = "CryptoCalculator"
    /\ pc' = "done"
    /\ local' = << >>

Return ==
    /\ pc = "done"
    /\ pc' = "idle"
    /\ fn' = "none"
    /\ args' = << >>
    /\ ret' = Zero
    /\ local' = << >>

Next ==
    \/ Call_mul_cap
    \/ Call_mul_div_by_cp10k_capped
    \/ Call_remainder_mul_div
    \/ Call_warmup_cooldown_rate_bps
    \/ Call_EbpfStreamingCalculator
    \/ Call_ManualCalculator
    \/ Call_CryptoCalculator
    \/ Return

Spec == Init /\ [][Next]_vars


(***************************************************************************)
(* What a finished call looks like, and the exact values in unbounded      *)
(* arithmetic that the program's results are compared with.                *)
(***************************************************************************)
Called(f) == pc = "done" /\ fn = f

NonZeroPortions ==
    /\ args.account_portion # Zero
    /\ args.cluster_portion # Zero
    /\ args.cluster_effective # Zero

\* the rate selected for the epoch of the call
SelectedRate ==
    warmup_cooldown_rate_bps(args.epoch, args.new_rate_activation_epoch)

\* min(floor(ap * ce * rate / (cp * 10_000)), ap) for the arguments of the call
ExactDelta ==
    RefDelta(args.account_portion, args.cluster_portion,
             args.cluster_effective, SelectedRate)

\* floor(a * b / (cp * 10_000)) for the arguments of a mul_div call
TrueQuotient == Div(Mul(args.a, args.b), Mul(args.cp, TenK))

\* rem_hi * 10_000 + rem_lo
Remainder(rem_hi, rem_lo) == Add(Mul(rem_hi, TenK), rem_lo)

\* ret = Some((q, rem_hi, rem_lo)) is the exact quotient and remainder of
\* a * b by cp * 10_000, the remainder reduced
ExactQuotientAndRemainder ==
    /\ ret.some
    /\ Add(Mul(ret.val[1], Mul(args.cp, TenK)),
           Remainder(ret.val[2], ret.val[3])) = Mul(args.a, args.b)
    /\ Lt(Remainder(ret.val[2], ret.val[3]), Mul(args.cp, TenK))
    /\ Lt(ret.val[3], TenK)

\* floor((rem_hi * 10_000 + rem_lo) * k / (cp * 10_000)) for the arguments of
\* a remainder_mul_div call
ExactRescale ==
    Div(Mul(Remainder(args.rem_hi, args.rem_lo), args.k), Mul(args.cp, TenK))

ReducedRemainder ==
    /\ Lt(args.rem_lo, TenK)
    /\ Lt(Remainder(args.rem_hi, args.rem_lo), Mul(args.cp, TenK))

(***************************************************************************)
(* C1: for non-zero account_portion, cluster_portion and cluster_effective *)
(* and every epoch and activation epoch, the streaming calculator returns  *)
(* exactly min(floor(account_portion * cluster_effective * rate_bps /      *)
(* (cluster_portion * 10_000)), account_portion), product and quotient     *)
(* taken in unbounded arithmetic, rate_bps the rate selected for the epoch.*)
(***************************************************************************)
C1_StreamingIsExact ==
    (Called("EbpfStreamingCalculator") /\ NonZeroPortions)
        => ret = ExactDelta

\* the documented example, floor(100_000 * 100_000 * 2_500 / (50_000 * 10_000))
C1_Witness ==
    /\ Called("EbpfStreamingCalculator")
    /\ args.account_portion = N(100000)
    /\ args.cluster_portion = N(50000)
    /\ args.cluster_effective = N(100000)
    /\ SelectedRate = N(ORIGINAL_WARMUP_COOLDOWN_RATE_BPS)
    /\ ret = N(50000)

(***************************************************************************)
(* C2: for all inputs the streaming calculator returns a value             *)
(* <= account_portion, and returns 0 whenever account_portion,             *)
(* cluster_portion or cluster_effective is 0.                              *)
(***************************************************************************)
C2_StreamingClamped ==
    Called("EbpfStreamingCalculator")
        => /\ Le(ret, args.account_portion)
           /\ ~NonZeroPortions => ret = Zero

\* a call that the clamp decides: the exact quotient exceeds account_portion
C2_Witness ==
    /\ Called("EbpfStreamingCalculator")
    /\ NonZeroPortions
    /\ Gt(RefQuotient(args.account_portion, args.cluster_portion,
                      args.cluster_effective, SelectedRate),
          args.account_portion)
    /\ ret = args.account_portion

(***************************************************************************)
(* C3: for all a, b and all cp > 0,                                        *)
(* mul_div_by_cp10k_capped(a, b, cp, u64::MAX) returns                     *)
(* Some((q, rem_hi, rem_lo)) with q * (cp * 10_000) + rem_hi * 10_000 +    *)
(* rem_lo = a * b, rem_hi * 10_000 + rem_lo < cp * 10_000 and              *)
(* rem_lo < 10_000, the quotient and remainder of the wide-arithmetic      *)
(* reference manual_mul_div of the test mul_div_matches_manual.            *)
(***************************************************************************)
C3_MatchesWideReference ==
    (Called("mul_div_by_cp10k_capped") /\ args.cp # Zero
     /\ args.q_cap = U64_MAX)
        => ExactQuotientAndRemainder

(***************************************************************************)
(* C4: for all a, b, q_cap and all cp > 0, mul_div_by_cp10k_capped returns *)
(* None if and only if floor(a * b / (cp * 10_000)) > q_cap, and when the  *)
(* true quotient is <= q_cap it returns Some with that exact quotient.     *)
(***************************************************************************)
C4_CapHonored ==
    (Called("mul_div_by_cp10k_capped") /\ args.cp # Zero)
        => /\ ~ret.some <=> Gt(TrueQuotient, args.q_cap)
           /\ ret.some => ret.val[1] = TrueQuotient

\* the cap one below a true quotient of more than 32 bits: None
C4_Witness ==
    /\ Called("mul_div_by_cp10k_capped")
    /\ args.cp # Zero
    /\ Gt(args.q_cap, U32_MAX)
    /\ Add(args.q_cap, One) = TrueQuotient
    /\ ~ret.some

(***************************************************************************)
(* C5: for all a, b and cap, mul_cap(a, b, cap) = min(a * b, cap) with the *)
(* product in unbounded arithmetic, also when a * b >= 2^64; it returns 0  *)
(* when a = 0 or b = 0.                                                    *)
(***************************************************************************)
C5_MulCapIsMin ==
    Called("mul_cap")
        => /\ ret = Min(Mul(args.a, args.b), args.cap)
           /\ (args.a = Zero \/ args.b = Zero) => ret = Zero

\* a product of 2^64 or more under a cap below u64::MAX
C5_Witness ==
    /\ Called("mul_cap")
    /\ Gt(Mul(args.a, args.b), U64_MAX)
    /\ Lt(args.cap, U64_MAX)
    /\ args.cap # Zero
    /\ ret = args.cap

(***************************************************************************)
(* C6: for every cp > 0, every k and every reduced remainder pair          *)
(* (rem_lo < 10_000, rem_hi * 10_000 + rem_lo < cp * 10_000),              *)
(* remainder_mul_div(rem_hi, rem_lo, k, cp) =                              *)
(* floor((rem_hi * 10_000 + rem_lo) * k / (cp * 10_000)); it returns 0     *)
(* when k = 0.                                                             *)
(***************************************************************************)
C6_RemainderRescaleExact ==
    Called("remainder_mul_div")
        => /\ (args.cp # Zero /\ ReducedRemainder) => ret = ExactRescale
           /\ args.k = Zero => ret = Zero

\* a reduced remainder with both digits non-zero scaled by u64::MAX
C6_Witness ==
    /\ Called("remainder_mul_div")
    /\ ReducedRemainder
    /\ args.rem_hi # Zero
    /\ args.rem_lo # Zero
    /\ args.k = U64_MAX
    /\ Gt(ret, U32_MAX)

(***************************************************************************)
(* C7: remainder_mul_div(rem_hi, rem_lo, k, cp) equals                     *)
(* floor((rem_hi * 10_000 + rem_lo) * k / (cp * 10_000)) for every rem_hi, *)
(* every rem_lo in 0..9_999, every k and every cp > 0, with no requirement *)
(* that rem_hi < cp.                                                       *)
(***************************************************************************)
C7_RemainderRescaleAnyHi ==
    (Called("remainder_mul_div") /\ args.cp # Zero /\ Lt(args.rem_lo, TenK))
        => ret = ExactRescale

(***************************************************************************)
(* C8: warmup_cooldown_rate_bps returns 2_500 whenever the activation      *)
(* epoch is None, for every epoch including u64::MAX, and whenever         *)
(* epoch < activation epoch; it returns 900 in every other case.           *)
(***************************************************************************)
C8_RateSelection ==
    Called("warmup_cooldown_rate_bps")
        => ret = IF ~args.new_rate_activation_epoch.some
                 THEN N(ORIGINAL_WARMUP_COOLDOWN_RATE_BPS)
                 ELSE IF Lt(args.epoch, args.new_rate_activation_epoch.val)
                 THEN N(ORIGINAL_WARMUP_COOLDOWN_RATE_BPS)
                 ELSE N(TOWER_WARMUP_COOLDOWN_RATE_BPS)

(***************************************************************************)
(* C9: for every (epoch, account_portion, cluster_portion,                 *)
(* cluster_effective, activation epoch) the ManualCalculator returns what  *)
(* the streaming calculator returns, also where account_portion *          *)
(* cluster_effective * rate_bps does not fit in 128 bits.                  *)
(***************************************************************************)
C9_ManualAgreesWithStreaming ==
    Called("ManualCalculator")
        => ret = EbpfStreaming_rate_limited_stake_change(
                    args.epoch, args.account_portion, args.cluster_portion,
                    args.cluster_effective, args.new_rate_activation_epoch)

(***************************************************************************)
(* C10: for every input the CryptoCalculator returns                       *)
(* min(floor(account_portion * cluster_effective * rate_bps /              *)
(* (cluster_portion * 10_000)), account_portion) (0 when a portion is 0),  *)
(* also when the 256-bit quotient is >= 2^64.                              *)
(***************************************************************************)
C10_CryptoIsExact ==
    Called("CryptoCalculator")
        => ret = IF NonZeroPortions THEN ExactDelta ELSE Zero


(***************************************************************************)
(* The allowance selectors.  T names the calculator the generic functions  *)
(* are instantiated with.                                                  *)
(***************************************************************************)
Calculators == {"EbpfStreamingCalculator", "ManualCalculator", "CryptoCalculator"}

\* T::rate_limited_stake_change
rate_limited_stake_change(T, epoch, account_portion, cluster_portion, cluster_effective, new_rate_activation_epoch) ==
    CASE T = "EbpfStreamingCalculator" ->
           EbpfStreaming_rate_limited_stake_change(
               epoch, account_portion, cluster_portion, cluster_effective,
               new_rate_activation_epoch)
      [] T = "ManualCalculator" ->
           Manual_rate_limited_stake_change(
               epoch, account_portion, cluster_portion, cluster_effective,
               new_rate_activation_epoch)
      [] T = "CryptoCalculator" ->
           Crypto_rate_limited_stake_change(
               epoch, account_portion, cluster_portion, cluster_effective,
               new_rate_activation_epoch)

StakeHistoryEntry(activating, deactivating, effective) ==
    [activating |-> activating, deactivating |-> deactivating,
     effective |-> effective]

\* calculate_activation_allowance reading the deactivating field
calculate_activation_allowance_by_deactivating(T, current_epoch, account_activating_stake, prev_epoch_cluster_state, new_rate_activation_epoch) ==
    rate_limited_stake_change(T, current_epoch, account_activating_stake,
                              prev_epoch_cluster_state.deactivating,
                              prev_epoch_cluster_state.effective,
                              new_rate_activation_epoch)

calculate_activation_allowance(T, current_epoch, account_activating_stake, prev_epoch_cluster_state, new_rate_activation_epoch) ==
    rate_limited_stake_change(T, current_epoch, account_activating_stake,
                              prev_epoch_cluster_state.activating,
                              prev_epoch_cluster_state.effective,
                              new_rate_activation_epoch)

calculate_deactivation_allowance(T, current_epoch, account_deactivating_stake, prev_epoch_cluster_state, new_rate_activation_epoch) ==
    rate_limited_stake_change(T, current_epoch, account_deactivating_stake,
                              prev_epoch_cluster_state.deactivating,
                              prev_epoch_cluster_state.effective,
                              new_rate_activation_epoch)

\* <<epoch, new_rate_activation_epoch>>: before and after the activation
AllowanceRateCases == {<<Zero, None>>, <<N(5), Some(N(5))>>}
AllowanceStakes == {One, N(SmallMax), N(100000)}
ClusterShares == {One, N(2), N(50000)}
ClusterStates ==
    {StakeHistoryEntry(a, d, e) :
        a \in ClusterShares, d \in ClusterShares, e \in {N(100000), Pow2(63)}}

AllowanceArgs(T, rc, stake, cluster) ==
    [T |-> T, current_epoch |-> rc[1], account_stake |-> stake,
     prev_epoch_cluster_state |-> cluster,
     new_rate_activation_epoch |-> rc[2]]

Call_calculate_activation_allowance ==
    /\ pc = "idle"
    /\ \E T \in Calculators, rc \in AllowanceRateCases,
          stake \in AllowanceStakes, cluster \in ClusterStates :
          /\ args' = AllowanceArgs(T, rc, stake, cluster)
          /\ ret' = calculate_activation_allowance(T, rc[1], stake, cluster,
                                                   rc[2])
    /\ fn' = "calculate_activation_allowance"
    /\ pc' = "done"
    /\ local' = << >>

Call_calculate_deactivation_allowance ==
    /\ pc = "idle"
    /\ \E T \in Calculators, rc \in AllowanceRateCases,
          stake \in AllowanceStakes, cluster \in ClusterStates :
          /\ args' = AllowanceArgs(T, rc, stake, cluster)
          /\ ret' = calculate_deactivation_allowance(T, rc[1], stake, cluster,
                                                     rc[2])
    /\ fn' = "calculate_deactivation_allowance"
    /\ pc' = "done"
    /\ local' = << >>

AllowanceNext ==
    \/ Call_calculate_activation_allowance
    \/ Call_calculate_deactivation_allowance
    \/ Return

AllowanceSpec == Init /\ [][AllowanceNext]_vars

\* the formula of the calculator of the call with the given cluster_portion
FormulaWith(cluster_portion) ==
    rate_limited_stake_change(args.T, args.current_epoch, args.account_stake,
                              cluster_portion,
                              args.prev_epoch_cluster_state.effective,
                              args.new_rate_activation_epoch)

(***************************************************************************)
(* C11: calculate_activation_allowance returns rate_limited_stake_change   *)
(* with cluster_portion = cluster.activating, and                          *)
(* calculate_deactivation_allowance with cluster_portion =                 *)
(* cluster.deactivating; both pass cluster.effective, the epoch, the       *)
(* account stake and the activation epoch unchanged, and neither result    *)
(* changes when the cluster field the other one uses is changed.           *)
(***************************************************************************)
C11_AllowanceSelectors ==
    /\ Called("calculate_activation_allowance")
          => /\ ret = FormulaWith(args.prev_epoch_cluster_state.activating)
             /\ \A d \in ClusterShares :
                   calculate_activation_allowance(
                       args.T, args.current_epoch, args.account_stake,
                       [args.prev_epoch_cluster_state EXCEPT !.deactivating = d],
                       args.new_rate_activation_epoch) = ret
    /\ Called("calculate_deactivation_allowance")
          => /\ ret = FormulaWith(args.prev_epoch_cluster_state.deactivating)
             /\ \A a \in ClusterShares :
                   calculate_deactivation_allowance(
                       args.T, args.current_epoch, args.account_stake,
                       [args.prev_epoch_cluster_state EXCEPT !.activating = a],
                       args.new_rate_activation_epoch) = ret

\* an activation allowance that the deactivating field would have changed
C11_Witness ==
    /\ Called("calculate_activation_allowance")
    /\ ret # Zero
    /\ ret # FormulaWith(args.prev_epoch_cluster_state.deactivating)


(***************************************************************************)
(* Calls of the mixed-radix primitives by themselves.  The updated *hi and *)
(* *lo are returned beside the result: ret = [hi, lo, wraps] for           *)
(* add_base_10k_mod and [hi, lo, bit] for double_base_10k_reduce.          *)
(***************************************************************************)
PrimCp == {One, N(2), N(SmallMax), N(10000), U64_MAX}
\* reduced and unreduced high digits
PrimHi(cp) == {Zero, One, N(123), Sub(cp, One), cp, U64_MAX}
PrimLo == {Zero, One, N(5000), N(9999)}

Call_add_base_10k_mod ==
    /\ pc = "idle"
    /\ \E cp \in PrimCp, lo \in PrimLo, add_lo \in PrimLo :
          \E hi \in PrimHi(cp), add_hi \in PrimHi(cp) :
             /\ args' = [hi |-> hi, lo |-> lo, add_hi |-> add_hi,
                         add_lo |-> add_lo, cp |-> cp]
             /\ ret' = add_base_10k_mod(hi, lo, add_hi, add_lo, cp)
    /\ fn' = "add_base_10k_mod"
    /\ pc' = "done"
    /\ local' = << >>

Call_double_base_10k_reduce ==
    /\ pc = "idle"
    /\ \E cp \in PrimCp, lo \in PrimLo :
          \E hi \in PrimHi(cp) :
             /\ args' = [hi |-> hi, lo |-> lo, cp |-> cp]
             /\ ret' = double_base_10k_reduce(hi, lo, cp)
    /\ fn' = "double_base_10k_reduce"
    /\ pc' = "done"
    /\ local' = << >>

PrimitiveNext ==
    \/ Call_add_base_10k_mod
    \/ Call_double_base_10k_reduce
    \/ Return

PrimitiveSpec == Init /\ [][PrimitiveNext]_vars

\* cp * 10_000
Modulus(cp) == Mul(cp, TenK)

(***************************************************************************)
(* C14: after any call of add_base_10k_mod or double_base_10k_reduce with  *)
(* cp > 0 and lo, add_lo < 10_000, whatever hi and add_hi are on entry,    *)
(* the updated pair satisfies lo < 10_000 and hi < cp.                     *)
(***************************************************************************)
C14_PairReducedOnExit ==
    /\ (Called("add_base_10k_mod") /\ args.cp # Zero
        /\ Lt(args.lo, TenK) /\ Lt(args.add_lo, TenK))
          => (Lt(ret.lo, TenK) /\ Lt(ret.hi, args.cp))
    /\ (Called("double_base_10k_reduce") /\ args.cp # Zero
        /\ Lt(args.lo, TenK))
          => (Lt(ret.lo, TenK) /\ Lt(ret.hi, args.cp))

(***************************************************************************)
(* C15: for cp > 0 and reduced operands (hi < cp, add_hi < cp,             *)
(* lo < 10_000, add_lo < 10_000), with M = cp * 10_000, add_base_10k_mod   *)
(* leaves new_hi * 10_000 + new_lo + wraps * M = (hi * 10_000 + lo) +      *)
(* (add_hi * 10_000 + add_lo), the new value is < M, and wraps is 0, 1     *)
(* or 2.                                                                   *)
(***************************************************************************)
C15_AddCountsWraps ==
    (Called("add_base_10k_mod") /\ args.cp # Zero
     /\ Lt(args.hi, args.cp) /\ Lt(args.add_hi, args.cp)
     /\ Lt(args.lo, TenK) /\ Lt(args.add_lo, TenK))
        => /\ Add(Remainder(ret.hi, ret.lo),
                  Mul(ret.wraps, Modulus(args.cp)))
                = Add(Remainder(args.hi, args.lo),
                      Remainder(args.add_hi, args.add_lo))
           /\ Lt(Remainder(ret.hi, ret.lo), Modulus(args.cp))
           /\ ret.wraps \in {Zero, One, N(2)}

\* reduced operands whose low digits carry and whose sum passes the modulus
C15_Witness ==
    /\ Called("add_base_10k_mod")
    /\ Lt(args.hi, args.cp) /\ Lt(args.add_hi, args.cp)
    /\ Lt(args.lo, TenK) /\ Lt(args.add_lo, TenK)
    /\ Ge(Add(args.lo, args.add_lo), TenK)
    /\ Gt(args.cp, One)
    /\ ret.wraps = One

(***************************************************************************)
(* C16: for cp > 0 and a reduced pair (hi < cp, lo < 10_000),              *)
(* double_base_10k_reduce leaves what add_base_10k_mod leaves with the     *)
(* pair itself as addend and returns the single quotient bit: bit is 0 or  *)
(* 1, new_hi * 10_000 + new_lo + bit * (cp * 10_000) =                     *)
(* 2 * (hi * 10_000 + lo), and the underlying add reports no 2 wraps.      *)
(***************************************************************************)
C16_DoubleIsAddOfItself ==
    (Called("double_base_10k_reduce") /\ args.cp # Zero
     /\ Lt(args.hi, args.cp) /\ Lt(args.lo, TenK))
        => /\ ret.bit \in {Zero, One}
           /\ Add(Remainder(ret.hi, ret.lo), Mul(ret.bit, Modulus(args.cp)))
                = Double(Remainder(args.hi, args.lo))
           /\ add_base_10k_mod(args.hi, args.lo, args.hi, args.lo, args.cp)
                = [hi |-> ret.hi, lo |-> ret.lo, wraps |-> ret.bit]

\* a reduced pair whose double carries out of the low digit and passes the
\* modulus
C16_Witness ==
    /\ Called("double_base_10k_reduce")
    /\ Lt(args.hi, args.cp) /\ Lt(args.lo, TenK)
    /\ Ge(Double(args.lo), TenK)
    /\ args.hi # Zero
    /\ ret.bit = One


(***************************************************************************)
(* The stepwise machine: the loops of bpf-math taken one iteration at a    *)
(* time, and the streaming calculator taken one callee step at a time.     *)
(* A frame holds the local variables of a function in progress:            *)
(*   returned    whether the function has returned, and result its value   *)
(*   st, c       the loop state and what the loop only reads (as above)    *)
(*   iterations  how many times the loop body has been entered             *)
(*   divisors    the divisors of the / and % executed so far               *)
(***************************************************************************)

\* mul_div_by_cp10k_capped dividing by cp before it looks at cp
mul_div_enter_divides_first(a, b, cp, q_cap) ==
    IF a = Zero \/ b = Zero
    THEN [returned |-> TRUE, result |-> Some(<<Zero, Zero, Zero>>),
          iterations |-> 0, divisors |-> {}]
    ELSE IF cp = Zero
    THEN [returned |-> TRUE, result |-> None, iterations |-> 0,
          divisors |-> {TenK, cp}]
    ELSE
    Let(split_base_10k(a), LAMBDA sp :
    Let(DivMod(sp[1], cp), LAMBDA aq :
      [returned |-> FALSE, result |-> None, iterations |-> 0,
       divisors |-> {TenK, cp},
       st |-> [i |-> U64_BITS - 1, q |-> Zero, r_hi |-> Zero, r_lo |-> Zero,
               none |-> FALSE],
       c |-> [b |-> b, cp |-> cp, q_cap |-> q_cap, adder_q |-> aq[1],
              adder_hi |-> aq[2], adder_lo |-> sp[2]]]))

\* mul_div_by_cp10k_capped up to its loop
mul_div_enter(a, b, cp, q_cap) ==
    IF a = Zero \/ b = Zero
    THEN [returned |-> TRUE, result |-> Some(<<Zero, Zero, Zero>>),
          iterations |-> 0, divisors |-> {}]
    ELSE IF cp = Zero
    \* split_base_10k(a) has divided by BASIS_POINTS_PER_UNIT
    THEN [returned |-> TRUE, result |-> None, iterations |-> 0,
          divisors |-> {TenK}]
    ELSE
    Let(split_base_10k(a), LAMBDA sp :
    Let(DivMod(sp[1], cp), LAMBDA aq :
      [returned |-> FALSE, result |-> None, iterations |-> 0,
       divisors |-> {TenK, cp},
       st |-> [i |-> U64_BITS - 1, q |-> Zero, r_hi |-> Zero, r_lo |-> Zero,
               none |-> FALSE],
       c |-> [b |-> b, cp |-> cp, q_cap |-> q_cap, adder_q |-> aq[1],
              adder_hi |-> aq[2], adder_lo |-> sp[2]]]))

\* one iteration of the loop of mul_div_by_cp10k_capped, and the return that
\* follows the last one (add_hi_mod divides by cp only)
mul_div_step(f) ==
    Let(mul_div_iter(f.st, f.c), LAMBDA st :
      [f EXCEPT !.st = st,
                !.iterations = @ + 1,
                !.returned = st.none \/ st.i < 0,
                !.result = IF st.none \/ st.i >= 0 THEN None
                           ELSE Some(<<st.q, st.r_hi, st.r_lo>>)])

\* remainder_mul_div with a loop over the bit positions 62 down to 0
remainder_enter_from_bit_62(rem_hi, rem_lo, k, cp) ==
    IF k = Zero
    THEN [returned |-> TRUE, result |-> Zero, iterations |-> 0]
    ELSE [returned |-> FALSE, result |-> Zero, iterations |-> 0,
          st |-> [i |-> U64_BITS - 2, q |-> Zero, r_hi |-> Zero,
                  r_lo |-> Zero],
          c |-> [k |-> k, cp |-> cp, adder_hi |-> rem_hi,
                 adder_lo |-> rem_lo]]

\* remainder_mul_div up to its loop
remainder_enter(rem_hi, rem_lo, k, cp) ==
    IF k = Zero
    THEN [returned |-> TRUE, result |-> Zero, iterations |-> 0]
    ELSE [returned |-> FALSE, result |-> Zero, iterations |-> 0,
          st |-> [i |-> U64_BITS - 1, q |-> Zero, r_hi |-> Zero,
                  r_lo |-> Zero],
          c |-> [k |-> k, cp |-> cp, adder_hi |-> rem_hi,
                 adder_lo |-> rem_lo]]

\* one iteration of the loop of remainder_mul_div, and the return that
\* follows the last one
remainder_step(f) ==
    Let(remainder_iter(f.st, f.c), LAMBDA st :
      [f EXCEPT !.st = st,
                !.iterations = @ + 1,
                !.returned = st.i < 0,
                !.result = IF st.i < 0 THEN st.q ELSE Zero])

StepMulDivA == {Zero, One, N(SmallMax), N(100001), U64_MAX}
StepMulDivB == {Zero, One, N(63), Pow2(63), U64_MAX}
StepMulDivCp == {Zero, One, N(3), N(10000), U64_MAX}
StepMulDivCaps == {Zero, One, N(25000), U64_MAX}

Enter_mul_div_by_cp10k_capped ==
    /\ pc = "idle"
    /\ \E a \in StepMulDivA, b \in StepMulDivB, cp \in StepMulDivCp,
          q_cap \in StepMulDivCaps :
          /\ args' = [a |-> a, b |-> b, cp |-> cp, q_cap |-> q_cap]
          /\ local' = mul_div_enter(a, b, cp, q_cap)
    /\ fn' = "mul_div_by_cp10k_capped"
    /\ pc' = IF local'.returned THEN "done" ELSE "loop"
    /\ ret' = IF local'.returned THEN local'.result ELSE ret

Iterate_mul_div_by_cp10k_capped ==
    /\ pc = "loop"
    /\ fn = "mul_div_by_cp10k_capped"
    /\ local' = mul_div_step(local)
    /\ pc' = IF local'.returned THEN "done" ELSE "loop"
    /\ ret' = IF local'.returned THEN local'.result ELSE ret
    /\ UNCHANGED <<fn, args>>

StepRemCp == {One, N(3), N(10000), U64_MAX}
StepRemHi(cp) == {Zero, One, Sub(cp, One)}
StepRemLo == {Zero, One, N(9999)}
StepRemK == {Zero, One, N(900), N(2500), U64_MAX}

Enter_remainder_mul_div ==
    /\ pc = "idle"
    /\ \E cp \in StepRemCp, rem_lo \in StepRemLo, k \in StepRemK :
          \E rem_hi \in StepRemHi(cp) :
             /\ args' = [rem_hi |-> rem_hi, rem_lo |-> rem_lo, k |-> k,
                         cp |-> cp]
             /\ local' = remainder_enter(rem_hi, rem_lo, k, cp)
    /\ fn' = "remainder_mul_div"
    /\ pc' = IF local'.returned THEN "done" ELSE "loop"
    /\ ret' = IF local'.returned THEN local'.result ELSE ret

Iterate_remainder_mul_div ==
    /\ pc = "loop"
    /\ fn = "remainder_mul_div"
    /\ local' = remainder_step(local)
    /\ pc' = IF local'.returned THEN "done" ELSE "loop"
    /\ ret' = IF local'.returned THEN local'.result ELSE ret
    /\ UNCHANGED <<fn, args>>

LoopNext ==
    \/ Enter_mul_div_by_cp10k_capped
    \/ Iterate_mul_div_by_cp10k_capped
    \/ Enter_remainder_mul_div
    \/ Iterate_remainder_mul_div
    \/ Return

LoopSpec == Init /\ [][LoopNext]_vars

\* a function followed step by step returns what the function taken whole does
StepwiseAgrees ==
    /\ Called("mul_div_by_cp10k_capped")
          => ret = mul_div_by_cp10k_capped(args.a, args.b, args.cp, args.q_cap)
    /\ Called("remainder_mul_div")
          => ret = remainder_mul_div(args.rem_hi, args.rem_lo, args.k, args.cp)


C19_Original ==
    fn = "mul_div_by_cp10k_capped"
        => /\ Zero \notin local.divisors
           /\ (pc = "done" /\ (args.a = Zero \/ args.b = Zero))
                 => (ret.some /\ ret.val = <<Zero, Zero, Zero>>)
           /\ (pc = "done" /\ args.a # Zero /\ args.b # Zero
               /\ args.cp = Zero)
                 => /\ ~ret.some
                    /\ local.iterations = 0
                    /\ local.divisors = {}

(***************************************************************************)
(* C19 amended: mul_div_by_cp10k_capped never divides by zero: for every   *)
(* cp and q_cap, cp = 0 and q_cap = 0 included, it returns                 *)
(* Some((0, 0, 0)) when a = 0 or b = 0 without dividing at all, and when   *)
(* a != 0, b != 0 and cp = 0 it returns None before any division by cp     *)
(* and before any loop iteration, after exactly one division: the split    *)
(* of a by the constant 10_000.                                            *)
(***************************************************************************)
C19_Amended ==
    fn = "mul_div_by_cp10k_capped"
        => /\ Zero \notin local.divisors
           /\ (pc = "done" /\ (args.a = Zero \/ args.b = Zero))
                 => /\ ret.some /\ ret.val = <<Zero, Zero, Zero>>
                    /\ local.divisors = {}
           /\ (pc = "done" /\ args.a # Zero /\ args.b # Zero
               /\ args.cp = Zero)
                 => /\ ~ret.some
                    /\ local.iterations = 0
                    /\ local.divisors = {TenK}

\* cp = 0 together with q_cap = 0 and non-zero a and b
C19_Witness ==
    /\ Called("mul_div_by_cp10k_capped")
    /\ args.a = U64_MAX
    /\ args.b # Zero
    /\ args.cp = Zero
    /\ args.q_cap = Zero
    /\ ~ret.some


(***************************************************************************)
(* The streaming calculator step by step.  Its frame holds rate_bps,       *)
(* q_cap, q1, rem_hi, rem_lo, total as the code names them, the frame of   *)
(* the callee in progress, and                                             *)
(*   invoked  the calls made so far of functions that take cp, each with   *)
(*            the cp it was given                                          *)
(***************************************************************************)

\* mul_cap up to its loop
mul_cap_enter(a, b, cap) ==
    IF a = Zero \/ b = Zero
    THEN [returned |-> TRUE, result |-> Zero, iterations |-> 0]
    ELSE [returned |-> FALSE, result |-> Zero, iterations |-> 0, cap |-> cap,
          st |-> [a |-> a, b |-> b, res |-> Zero, ret |-> None]]

\* one evaluation of the while condition of mul_cap, with the body or the
\* final return that follows it
mul_cap_step(f) ==
    IF f.st.b = Zero \/ Ge(f.st.res, f.cap)
    THEN [f EXCEPT !.returned = TRUE,
                   !.result = IF Gt(f.st.res, f.cap) THEN f.cap ELSE f.st.res]
    ELSE Let(mul_cap_iter(f.st, f.cap), LAMBDA st :
           [f EXCEPT !.st = st,
                     !.iterations = @ + 1,
                     !.returned = st.ret.some,
                     !.result = IF st.ret.some THEN st.ret.val ELSE Zero])

Invocation(f, cp) == [fn |-> f, cp |-> cp]

\* the zero guard without the check of cluster_portion
EbpfStreaming_zero_guard_without_cluster(account_portion, cluster_portion, cluster_effective) ==
    account_portion = Zero \/ cluster_effective = Zero

\* the zero guard of the streaming calculator
EbpfStreaming_zero_guard(account_portion, cluster_portion, cluster_effective) ==
    account_portion = Zero \/ cluster_portion = Zero \/ cluster_effective = Zero

\* the streaming calculator up to its call of mul_div_by_cp10k_capped
EbpfStreaming_enter(epoch, account_portion, cluster_portion, cluster_effective, new_rate_activation_epoch) ==
    IF EbpfStreaming_zero_guard(account_portion, cluster_portion,
                                cluster_effective)
    THEN [returned |-> TRUE, result |-> Zero, invoked |-> << >>]
    ELSE
    Let(warmup_cooldown_rate_bps(epoch, new_rate_activation_epoch),
        LAMBDA rate_bps :
    Let(Div(account_portion, rate_bps), LAMBDA q_cap :
      [returned |-> FALSE, result |-> Zero, rate_bps |-> rate_bps,
       q_cap |-> q_cap,
       invoked |-> <<Invocation("mul_div_by_cp10k_capped", cluster_portion)>>,
       callee |-> mul_div_enter(account_portion, cluster_effective,
                                cluster_portion, q_cap)]))

\* EbpfStreaming_after_mul_div taking the two digits of the remainder in
\* the other order
EbpfStreaming_after_mul_div_swapped_digits(f, account_portion) ==
    IF ~f.callee.result.some
    THEN [f EXCEPT !.returned = TRUE, !.result = account_portion]
    ELSE [returned |-> FALSE, result |-> Zero, rate_bps |-> f.rate_bps,
          q_cap |-> f.q_cap, invoked |-> f.invoked,
          q1 |-> f.callee.result.val[1],
          rem_hi |-> f.callee.result.val[3],
          rem_lo |-> f.callee.result.val[2],
          callee |-> mul_cap_enter(f.callee.result.val[1], f.rate_bps,
                                   account_portion)]

\* from the return of mul_div_by_cp10k_capped to the call of mul_cap
EbpfStreaming_after_mul_div(f, account_portion) ==
    IF ~f.callee.result.some
    THEN [f EXCEPT !.returned = TRUE, !.result = account_portion]
    ELSE [returned |-> FALSE, result |-> Zero, rate_bps |-> f.rate_bps,
          q_cap |-> f.q_cap, invoked |-> f.invoked,
          q1 |-> f.callee.result.val[1],
          rem_hi |-> f.callee.result.val[2],
          rem_lo |-> f.callee.result.val[3],
          callee |-> mul_cap_enter(f.callee.result.val[1], f.rate_bps,
                                   account_portion)]

\* from the return of mul_cap to the call of remainder_mul_div
EbpfStreaming_after_mul_cap(f, account_portion, cluster_portion) ==
    IF Ge(f.callee.result, account_portion)
    THEN [f EXCEPT !.returned = TRUE, !.result = account_portion]
    ELSE [returned |-> FALSE, result |-> Zero, rate_bps |-> f.rate_bps,
          q_cap |-> f.q_cap, q1 |-> f.q1, rem_hi |-> f.rem_hi,
          rem_lo |-> f.rem_lo, total |-> f.callee.result,
          invoked |-> Append(f.invoked,
                             Invocation("remainder_mul_div", cluster_portion)),
          callee |-> remainder_enter(f.rem_hi, f.rem_lo, f.rate_bps,
                                     cluster_portion)]

\* from the return of remainder_mul_div to the return of the calculator
EbpfStreaming_after_remainder(f, account_portion) ==
    Let(f.callee.result, LAMBDA t2 :
    Let(U64Sub(account_portion, f.total), LAMBDA room :
      [f EXCEPT !.returned = TRUE,
                !.result = IF Ge(t2, room) THEN account_portion
                           ELSE U64Add(f.total, t2)]))

StepRateCases == {<<Zero, None>>, <<N(5), Some(N(5))>>}
StepAccountPortions == {Zero, One, N(SmallMax), N(100000), U64_MAX}
StepClusterPortions == {Zero, One, N(50000), U64_MAX}
StepClusterEffectives == {Zero, One, N(100000), U64_MAX}

Enter_EbpfStreamingCalculator ==
    /\ pc = "idle"
    /\ \E rc \in StepRateCases, ap \in StepAccountPortions,
          cp \in StepClusterPortions, ce \in StepClusterEffectives :
          /\ args' = StakeArgs(rc, ap, cp, ce)
          /\ local' = EbpfStreaming_enter(rc[1], ap, cp, ce, rc[2])
    /\ fn' = "EbpfStreamingCalculator"
    /\ pc' = IF local'.returned THEN "done" ELSE "in_mul_div"
    /\ ret' = IF local'.returned THEN local'.result ELSE ret

Ebpf_iterate_mul_div ==
    /\ pc = "in_mul_div"
    /\ ~local.callee.returned
    /\ local' = [local EXCEPT !.callee = mul_div_step(@)]
    /\ UNCHANGED <<pc, fn, args, ret>>

Ebpf_return_from_mul_div ==
    /\ pc = "in_mul_div"
    /\ local.callee.returned
    /\ local' = EbpfStreaming_after_mul_div(local, args.account_portion)
    /\ pc' = IF local'.returned THEN "done" ELSE "in_mul_cap"
    /\ ret' = IF local'.returned THEN local'.result ELSE ret
    /\ UNCHANGED <<fn, args>>

Ebpf_iterate_mul_cap ==
    /\ pc = "in_mul_cap"
    /\ ~local.callee.returned
    /\ local' = [local EXCEPT !.callee = mul_cap_step(@)]
    /\ UNCHANGED <<pc, fn, args, ret>>

Ebpf_return_from_mul_cap ==
    /\ pc = "in_mul_cap"
    /\ local.callee.returned
    /\ local' = EbpfStreaming_after_mul_cap(local, args.account_portion,
                                            args.cluster_portion)
    /\ pc' = IF local'.returned THEN "done" ELSE "in_remainder_mul_div"
    /\ ret' = IF local'.returned THEN local'.result ELSE ret
    /\ UNCHANGED <<fn, args>>

Ebpf_iterate_remainder_mul_div ==
    /\ pc = "in_remainder_mul_div"
    /\ ~local.callee.returned
    /\ local' = [local EXCEPT !.callee = remainder_step(@)]
    /\ UNCHANGED <<pc, fn, args, ret>>

Ebpf_return_from_remainder_mul_div ==
    /\ pc = "in_remainder_mul_div"
    /\ local.callee.returned
    /\ local' = EbpfStreaming_after_remainder(local, args.account_portion)
    /\ pc' = "done"
    /\ ret' = local'.result
    /\ UNCHANGED <<fn, args>>

StepNext ==
    \/ Enter_mul_div_by_cp10k_capped
    \/ Iterate_mul_div_by_cp10k_capped
    \/ Enter_EbpfStreamingCalculator
    \/ Ebpf_iterate_mul_div
    \/ Ebpf_return_from_mul_div
    \/ Ebpf_iterate_mul_cap
    \/ Ebpf_return_from_mul_cap
    \/ Ebpf_iterate_remainder_mul_div
    \/ Ebpf_return_from_remainder_mul_div
    \/ Return

StepSpec == Init /\ [][StepNext]_vars

\* the calculator followed step by step returns what it returns taken whole
StepwiseStreamingAgrees ==
    Called("EbpfStreamingCalculator")
        => ret = EbpfStreaming_rate_limited_stake_change(
                    args.epoch, args.account_portion, args.cluster_portion,
                    args.cluster_effective, args.new_rate_activation_epoch)


(***************************************************************************)
(* C12: in every execution of the streaming calculator no primitive        *)
(* (mul_div_by_cp10k_capped, remainder_mul_div, add_base_10k_mod,          *)
(* add_hi_mod, double_base_10k_reduce) is invoked with cp = 0: when a      *)
(* portion is 0 the zero guard returns 0 before any primitive is called.   *)
(***************************************************************************)
C12_NoPrimitiveWithZeroCp ==
    fn = "EbpfStreamingCalculator"
        => /\ \A n \in 1..Len(local.invoked) : local.invoked[n].cp # Zero
           \* the cp a loop iteration hands to double_base_10k_reduce,
           \* add_base_10k_mod and, through them, add_hi_mod
           /\ (pc \in {"in_mul_div", "in_remainder_mul_div"}
               /\ ~local.callee.returned)
                 => local.callee.c.cp # Zero
           /\ (pc = "done" /\ ~NonZeroPortions)
                 => (ret = Zero /\ local.invoked = << >>)

\* a call with cluster_portion = 0 alone, stopped by the guard
C12_Witness ==
    /\ Called("EbpfStreamingCalculator")
    /\ args.account_portion # Zero
    /\ args.cluster_effective # Zero
    /\ args.cluster_portion = Zero
    /\ ret = Zero
    /\ local.invoked = << >>

\* after the iteration for bit position i of a mul_div frame f for a:
\* q * (cp * 10_000) + r_hi * 10_000 + r_lo = a * (b >> i), the remainder
\* reduced and q within the cap
MulDivLoopInvariant(f, a) ==
    (f.iterations >= 1 /\ ~f.st.none)
        => /\ Add(Mul(f.st.q, Modulus(f.c.cp)),
                  Remainder(f.st.r_hi, f.st.r_lo))
                = Mul(a, Div(f.c.b, Pow2(f.st.i + 1)))
           /\ Lt(f.st.r_hi, f.c.cp)
           /\ Lt(f.st.r_lo, TenK)
           /\ Le(f.st.q, f.c.q_cap)

(***************************************************************************)
(* C18: loop invariant of mul_div_by_cp10k_capped for cp > 0: after the    *)
(* iteration for bit position i (63 down to 0) completes without a cap     *)
(* abort, q * (cp * 10_000) + r_hi * 10_000 + r_lo = a * (b >> i),         *)
(* r_hi < cp, r_lo < 10_000 and q <= q_cap; and the pair (rem_hi, rem_lo)  *)
(* the streaming calculator hands to remainder_mul_div is a reduced        *)
(* remainder, < cluster_portion * 10_000.                                  *)
(***************************************************************************)
C18_MulDivLoopInvariant ==
    /\ fn = "mul_div_by_cp10k_capped" => MulDivLoopInvariant(local, args.a)
    /\ (fn = "EbpfStreamingCalculator" /\ pc = "in_mul_div")
          => MulDivLoopInvariant(local.callee, args.account_portion)
    /\ (fn = "EbpfStreamingCalculator" /\ pc = "in_remainder_mul_div")
          => /\ Lt(local.rem_lo, TenK)
             /\ Lt(Remainder(local.rem_hi, local.rem_lo),
                   Modulus(args.cluster_portion))
             /\ local.invoked[Len(local.invoked)]
                   = Invocation("remainder_mul_div", args.cluster_portion)

\* half way through the loop, with a quotient and both remainder digits
\* non-zero
C18_Witness ==
    /\ fn = "mul_div_by_cp10k_capped"
    /\ pc = "loop"
    /\ local.iterations = 32
    /\ local.st.q # Zero
    /\ local.st.r_hi # Zero
    /\ local.st.r_lo # Zero


(***************************************************************************)
(* The range of the u64 operations.  x + y, x - y and x << 1 on u64 keep   *)
(* their mathematical value exactly when it lies in 0..2^64-1.  For each   *)
(* function, X_in_range(arguments) says that every addition, subtraction   *)
(* and left shift the function executes on these arguments, in the order   *)
(* and under the conditions of its code, stays in that range and that its  *)
(* debug_assert holds.                                                     *)
(***************************************************************************)
AddInRange(x, y) == Le(Add(x, y), U64_MAX)
SubInRange(x, y) == Ge(x, y)
ShlInRange(x) == Le(Double(x), U64_MAX)

add_hi_mod_in_range(hi, add, cp) ==
    /\ cp # Zero
    /\ \/ add = Zero
       \/ Let(IF Ge(hi, cp) THEN Mod(hi, cp) ELSE hi, LAMBDA h :
            /\ SubInRange(cp, h)
            /\ \/ Ge(add, Sub(cp, h))
               \/ AddInRange(h, add))

add_base_10k_mod_in_range(hi, lo, add_hi, add_lo, cp) ==
    /\ cp # Zero
    /\ AddInRange(lo, add_lo)
    /\ add_hi_mod_in_range(hi, add_hi, cp)
    /\ Let(add_hi_mod(hi, add_hi, cp), LAMBDA first :
       Let(IF Ge(Add(lo, add_lo), TenK) THEN One ELSE Zero, LAMBDA carry_hi :
         /\ add_hi_mod_in_range(first.hi, carry_hi, cp)
         /\ AddInRange(first.wraps,
                       add_hi_mod(first.hi, carry_hi, cp).wraps)))

double_base_10k_reduce_in_range(hi, lo, cp) ==
    /\ cp # Zero
    /\ add_base_10k_mod_in_range(hi, lo, hi, lo, cp)

add_with_cap_in_range(current, add, cap) ==
    \/ add = Zero
    \/ Gt(add, cap)
    \/ Gt(current, Sub(cap, add))
    \/ AddInRange(current, add)

double_with_cap_in_range(q, bit, cap) ==
    /\ Le(bit, One)
    /\ \/ Gt(bit, cap)
       \/ Gt(q, Half(Sub(cap, bit)))
       \/ ShlInRange(q)

\* the iteration of mul_cap that starts in st
mul_cap_iter_in_range(st, cap) ==
    \/ st.b = Zero
    \/ Ge(st.res, cap)
    \/ IsOdd(st.b) /\ Ge(st.a, saturating_sub(cap, st.res))
    \/ /\ IsOdd(st.b) => AddInRange(st.res, st.a)
       /\ Gt(st.a, Half(cap)) \/ ShlInRange(st.a)

\* the iteration of mul_div_by_cp10k_capped that starts in st
mul_div_iter_in_range(st, c) ==
    /\ double_base_10k_reduce_in_range(st.r_hi, st.r_lo, c.cp)
    /\ Let(double_base_10k_reduce(st.r_hi, st.r_lo, c.cp), LAMBDA d :
         /\ double_with_cap_in_range(st.q, d.bit, c.q_cap)
         /\ Let(double_with_cap(st.q, d.bit, c.q_cap), LAMBDA q1 :
              (q1.some /\ BitSet(c.b, st.i))
                => /\ add_with_cap_in_range(q1.val, c.adder_q, c.q_cap)
                   /\ Let(add_with_cap(q1.val, c.adder_q, c.q_cap),
                          LAMBDA q2 :
                        q2.some
                          => /\ add_base_10k_mod_in_range(
                                   d.hi, d.lo, c.adder_hi, c.adder_lo, c.cp)
                             /\ Let(add_base_10k_mod(d.hi, d.lo, c.adder_hi,
                                                     c.adder_lo, c.cp),
                                    LAMBDA s :
                                  s.wraps # Zero
                                    => add_with_cap_in_range(
                                           q2.val, s.wraps, c.q_cap)))))

\* the iteration of remainder_mul_div that starts in st
remainder_iter_in_range(st, c) ==
    /\ c.cp # Zero
    /\ double_base_10k_reduce_in_range(st.r_hi, st.r_lo, c.cp)
    /\ ShlInRange(st.q)
    /\ Let(double_base_10k_reduce(st.r_hi, st.r_lo, c.cp), LAMBDA d :
         BitSet(c.k, st.i)
           => /\ add_base_10k_mod_in_range(d.hi, d.lo, c.adder_hi,
                                           c.adder_lo, c.cp)
              /\ Let(add_base_10k_mod(d.hi, d.lo, c.adder_hi, c.adder_lo,
                                      c.cp), LAMBDA s :
                   s.wraps # Zero
                     => AddInRange(U64OrBit(U64Shl1(st.q), d.bit), s.wraps)))

\* the last two lines of the streaming calculator, f.callee being the
\* returned frame of remainder_mul_div
EbpfStreaming_after_remainder_in_range(f, account_portion) ==
    /\ SubInRange(account_portion, f.total)
    /\ \/ Ge(f.callee.result, Sub(account_portion, f.total))
       \/ AddInRange(f.total, f.callee.result)

\* the running quotient of a frame of remainder_mul_div
RunningQuotient(f) == IF f.returned THEN f.result ELSE f.st.q

(***************************************************************************)
(* C13: for every input of the streaming calculator, every u64 addition,   *)
(* subtraction and left shift executed in ebpf_streaming.rs and bpf-math   *)
(* stays within 0..2^64-1 and no debug_assert fails; in particular the     *)
(* running quotient of remainder_mul_div never exceeds k, so its q << 1    *)
(* and its wrapping_add never lose bits.  Stated on the step each state    *)
(* is about to take.                                                       *)
(***************************************************************************)
C13_NoOverflow ==
    fn = "EbpfStreamingCalculator"
      => /\ (pc = "in_mul_div" /\ ~local.callee.returned)
              => mul_div_iter_in_range(local.callee.st, local.callee.c)
         /\ (pc = "in_mul_cap" /\ ~local.callee.returned)
              => mul_cap_iter_in_range(local.callee.st, local.callee.cap)
         /\ (pc = "in_remainder_mul_div" /\ ~local.callee.returned)
              => remainder_iter_in_range(local.callee.st, local.callee.c)
         /\ pc = "in_remainder_mul_div"
              => Le(RunningQuotient(local.callee), local.rate_bps)
         /\ (pc = "in_remainder_mul_div" /\ local.callee.returned)
              => EbpfStreaming_after_remainder_in_range(
                     local, args.account_portion)

\* the example of the specification, which saturates to 1, and a call that
\* went through all of remainder_mul_div with a quotient above 0
C13_Witness ==
    \/ /\ Called("EbpfStreamingCalculator")
       /\ args.account_portion = One
       /\ args.cluster_portion = One
       /\ args.cluster_effective = U64_MAX
       /\ ret = One
    \/ /\ fn = "EbpfStreamingCalculator"
       /\ pc = "in_remainder_mul_div"
       /\ local.callee.returned
       /\ local.callee.iterations = U64_BITS
       /\ local.callee.result # Zero

=============================================================================
